---- MODULE Spec2Model ----
(***************************************************************************)
(* NDVI Monitoring App (src/index.js): the four script globals, the        *)
(* listeners and layers the handlers register on the Earth Engine Map and  *)
(* drawing tools, the widgets appended to the control panel, and the       *)
(* analysis pipeline run by performNDVIAnalysis.                           *)
(*                                                                         *)
(* Time values are carried in whole days since 1970-01-01 (every date the  *)
(* model uses is a midnight, 1 day = 86 400 000 ms); a raster is one       *)
(* pixel [masked, value] with NDVI kept in thousandths.                    *)
(***************************************************************************)
EXTENDS Integers, Sequences, FiniteSets, TLC

VARIABLES
    userAOI,        \* var userAOI       (index.js:41)
    startYear,      \* var startYear     (index.js:42)
    points,         \* var points        (index.js:43), a sequence of features
    pointCounter,   \* var pointCounter  (index.js:44)
    clickListeners, \* callbacks registered with Map.onClick (index.js:74)
    drawShape,      \* drawing mode of Map.drawingTools() (index.js:50-52)
    drawLayers,     \* Map.drawingTools().layers(): sequence of geometry sequences
    lastDrawn,      \* the geometry the user completed most recently
    mapLayers,      \* names of the layers added with Map.addLayer
    panel,          \* widgets appended to controlPanel after the static controls
    alertMsg,       \* text of the most recent ui.alert
    analysis,       \* locals of the most recent performNDVIAnalysis invocation
    nRuns,          \* number of performNDVIAnalysis invocations so far
    catalog         \* the imagery archive: source id -> sequence of scenes

vars == <<userAOI, startYear, points, pointCounter, clickListeners, drawShape,
          drawLayers, lastDrawn, mapLayers, panel, alertMsg, analysis, nRuns,
          catalog>>

(***************************************************************************)
(* Bounds of the model.                                                    *)
(***************************************************************************)
MaxPoints == 2
MaxListeners == 2
MaxGeoms == 2
MaxRuns == 2
MaxImgs == 2

NoAlert == "none"

(***************************************************************************)
(* Dates.  ee.Date.fromYMD, Date.millis, Date.advance(1,'year'),           *)
(* Date.format('YYYY-MM') and the calendar fields of a timestamp.          *)
(***************************************************************************)
DaysFromCivil(y, m, d) ==
    LET yy  == IF m <= 2 THEN y - 1 ELSE y
        era == yy \div 400
        yoe == yy - era * 400
        mp  == (m + 9) % 12
        doy == (153 * mp + 2) \div 5 + d - 1
        doe == yoe * 365 + yoe \div 4 - yoe \div 100 + doy
    IN  era * 146097 + doe - 719468

CivilFromDays(z0) ==
    LET z   == z0 + 719468
        era == z \div 146097
        doe == z - era * 146097
        yoe == (doe - doe \div 1460 + doe \div 36524 - doe \div 146096) \div 365
        doy == doe - (365 * yoe + yoe \div 4 - yoe \div 100)
        mp  == (5 * doy + 2) \div 153
        d   == doy - (153 * mp + 2) \div 5 + 1
        m   == IF mp < 10 THEN mp + 3 ELSE mp - 9
        y   == yoe + era * 400 + (IF m <= 2 THEN 1 ELSE 0)
    IN  [year |-> y, month |-> m, day |-> d]

DateFromYMD(y, m, d) == [year |-> y, month |-> m, day |-> d]

DateMillis(date) == DaysFromCivil(date.year, date.month, date.day)

AdvanceYear(date, n) == [date EXCEPT !.year = date.year + n]

DateFormatYYYYMM(date) ==
    ToString(date.year) \o "-" \o
    (IF date.month < 10 THEN "0" ELSE "") \o ToString(date.month)

(***************************************************************************)
(* The year dropdown: its items are digit strings, parsed by parseInt.     *)
(***************************************************************************)
DigitVal(c) ==
    CASE c = "0" -> 0 [] c = "1" -> 1 [] c = "2" -> 2 [] c = "3" -> 3
      [] c = "4" -> 4 [] c = "5" -> 5 [] c = "6" -> 6 [] c = "7" -> 7
      [] c = "8" -> 8 [] c = "9" -> 9

RECURSIVE parseInt(_)
parseInt(s) ==
    IF s = <<>> THEN 0
    ELSE 10 * parseInt(SubSeq(s, 1, Len(s) - 1)) + DigitVal(s[Len(s)])

yearItems ==
    { <<"2", "0", "2", "0">>, <<"2", "0", "2", "1">>, <<"2", "0", "2", "2">>,
      <<"2", "0", "2", "3">>, <<"2", "0", "2", "4">> }

(***************************************************************************)
(* Sequences.                                                              *)
(***************************************************************************)
RECURSIVE SeqsUpTo(_, _)
SeqsUpTo(S, n) ==
    IF n = 0 THEN { <<>> }
    ELSE LET shorter == SeqsUpTo(S, n - 1)
         IN  shorter \cup { Append(q, x) : q \in shorter, x \in S }

(***************************************************************************)
(* The imagery archive.  A Landsat scene carries the digital numbers of    *)
(* SR_B4 and SR_B5 and the two calibration properties processLandsat       *)
(* reads; a Sentinel-2 scene carries B4 and B8.  Reflectance of Landsat is *)
(* kept in units of 2.5e-6 (gain 2.75e-5 = 11, offset -0.2 = -80000).      *)
(***************************************************************************)
Sources == {"LANDSAT/LC08/C02/T1_L2", "LANDSAT/LC09/C02/T1_L2",
            "COPERNICUS/S2_SR_HARMONIZED"}

LandsatScene(y, m, d, b4, b5) ==
    [time_start |-> DaysFromCivil(y, m, d), red |-> b4, nir |-> b5,
     mult |-> 11, add |-> -80000]

SentinelScene(y, m, d, b4, b8) ==
    [time_start |-> DaysFromCivil(y, m, d), red |-> b4, nir |-> b8,
     mult |-> 0, add |-> 0]

LandsatScenes ==
    { LandsatScene(2021, 12, 31, 9000, 20000),
      LandsatScene(2022, 1, 17, 10000, 12000),
      LandsatScene(2022, 12, 31, 7000, 7000) }

SentinelScenes ==
    { SentinelScene(2022, 1, 1, 500, 3500),
      SentinelScene(2022, 7, 9, 1500, 1200),
      SentinelScene(2023, 1, 1, 600, 2400) }

ScenesOf(src) ==
    IF src = "COPERNICUS/S2_SR_HARMONIZED" THEN SentinelScenes ELSE LandsatScenes

ArchiveEntries == { [src |-> s, scene |-> sc] : s \in Sources,
                                                 sc \in LandsatScenes \cup SentinelScenes }

RECURSIVE ScenesFor(_, _)
ScenesFor(entries, src) ==
    IF entries = <<>> THEN <<>>
    ELSE (IF Head(entries).src = src THEN <<Head(entries).scene>> ELSE <<>>)
         \o ScenesFor(Tail(entries), src)

CatalogOf(entries) == [src \in Sources |-> ScenesFor(entries, src)]

Catalogs ==
    { CatalogOf(e) :
        e \in { q \in SeqsUpTo(ArchiveEntries, MaxImgs) :
                  \A i \in 1..Len(q) : q[i].scene \in ScenesOf(q[i].src) } }

(***************************************************************************)
(* ee.ImageCollection(id).filterDate(start, end): start inclusive, end     *)
(* exclusive.  filterBounds keeps every scene: all scenes of the archive   *)
(* intersect every AOI of the model.                                       *)
(***************************************************************************)
\* variant: the end of the range taken inclusive
filterDate_InclusiveEnd(collection, startDate, endDate) ==
    SelectSeq(collection,
              LAMBDA img : /\ DateMillis(startDate) <= img.time_start
                           /\ img.time_start <= DateMillis(endDate))

filterDate(collection, startDate, endDate) ==
    SelectSeq(collection,
              LAMBDA img : /\ DateMillis(startDate) <= img.time_start
                           /\ img.time_start < DateMillis(endDate))

(***************************************************************************)
(* normalizedDifference: (first - second) / (first + second); the pixel is *)
(* masked where an input is negative or the sum is zero.                   *)
(***************************************************************************)
Masked == [masked |-> TRUE, value |-> 0]

normalizedDifference(first, second) ==
    IF first < 0 \/ second < 0 \/ first + second = 0
    THEN Masked
    ELSE [masked |-> FALSE,
          value  |-> IF first >= second
                     THEN ((first - second) * 1000) \div (first + second)
                     ELSE -(((second - first) * 1000) \div (first + second))]

processLandsat(img) ==
    [ndvi |-> normalizedDifference(img.nir * img.mult + img.add,
                                   img.red * img.mult + img.add),
     time_start |-> img.time_start]

processSentinel(img) ==
    [ndvi |-> normalizedDifference(img.nir, img.red),
     time_start |-> img.time_start]

\* collection.map(processLandsat), collection.map(processSentinel)
mapProcessLandsat(collection) ==
    [i \in 1..Len(collection) |-> processLandsat(collection[i])]

mapProcessSentinel(collection) ==
    [i \in 1..Len(collection) |-> processSentinel(collection[i])]

(***************************************************************************)
(* collection.sort('system:time_start'): ascending, stable.                *)
(***************************************************************************)
RECURSIVE InsertByTime(_, _)
InsertByTime(img, sorted) ==
    IF sorted = <<>> THEN <<img>>
    ELSE IF img.time_start < Head(sorted).time_start
         THEN <<img>> \o sorted
         ELSE <<Head(sorted)>> \o InsertByTime(img, Tail(sorted))

RECURSIVE sortByTimeStart(_)
sortByTimeStart(collection) ==
    IF collection = <<>> THEN <<>>
    ELSE InsertByTime(collection[Len(collection)],
                      sortByTimeStart(SubSeq(collection, 1, Len(collection) - 1)))

(***************************************************************************)
(* collection.median(): per-pixel median of the unmasked values, the mean  *)
(* of the two middle values for an even count, masked for no value.        *)
(***************************************************************************)
RECURSIVE InsertValue(_, _)
InsertValue(v, sorted) ==
    IF sorted = <<>> THEN <<v>>
    ELSE IF v < Head(sorted) THEN <<v>> \o sorted
         ELSE <<Head(sorted)>> \o InsertValue(v, Tail(sorted))

RECURSIVE SortValues(_)
SortValues(vs) ==
    IF vs = <<>> THEN <<>> ELSE InsertValue(Head(vs), SortValues(Tail(vs)))

median(collection) ==
    LET valid  == SelectSeq(collection, LAMBDA img : ~img.ndvi.masked)
        sorted == SortValues([i \in 1..Len(valid) |-> valid[i].ndvi.value])
        n      == Len(sorted)
    IN  IF n = 0 THEN Masked
        ELSE IF n % 2 = 1 THEN [masked |-> FALSE, value |-> sorted[(n + 1) \div 2]]
        ELSE [masked |-> FALSE,
              value  |-> (sorted[n \div 2] + sorted[n \div 2 + 1]) \div 2]

(***************************************************************************)
(* ee.Filter.calendarRange(month, month, 'month').                         *)
(***************************************************************************)
calendarRangeMonth(collection, month) ==
    SelectSeq(collection,
              LAMBDA img : CivilFromDays(img.time_start).month = month)

(***************************************************************************)
(* computeMonthlyNDVI (index.js:214-221).  It reads the global startYear.  *)
(***************************************************************************)
months == [i \in 1..12 |-> i]

\* variant: the composites stamped with the analysed year itself
computeMonthlyNDVI_SameYear(collection) ==
    [i \in 1..Len(months) |->
        LET month    == months[i]
            filtered == median(calendarRangeMonth(collection, month))
            date     == DateFromYMD(startYear, month, 1)
        IN  [ndvi       |-> filtered,
             time_start |-> DateMillis(date),
             index      |-> DateFormatYYYYMM(date)]]

\* variant: a composite only for the months that have an image
computeMonthlyNDVI_SkipEmpty(collection) ==
    LET present == SelectSeq(months,
                             LAMBDA m : calendarRangeMonth(collection, m) # <<>>)
    IN  [i \in 1..Len(present) |->
            LET month    == present[i]
                filtered == median(calendarRangeMonth(collection, month))
                date     == DateFromYMD(startYear + 1, month, 1)
            IN  [ndvi       |-> filtered,
                 time_start |-> DateMillis(date),
                 index      |-> DateFormatYYYYMM(date)]]

computeMonthlyNDVI(collection) ==
    [i \in 1..Len(months) |->
        LET month    == months[i]
            filtered == median(calendarRangeMonth(collection, month))
            date     == DateFromYMD(startYear + 1, month, 1)
        IN  [ndvi       |-> filtered,
             time_start |-> DateMillis(date),
             index      |-> DateFormatYYYYMM(date)]]

(***************************************************************************)
(* monthlyNDVI.toBands(): one band per image, named index_band, in         *)
(* collection order.                                                       *)
(***************************************************************************)
toBands(collection) ==
    [i \in 1..Len(collection) |->
        [name |-> collection[i].index \o "_ndvi", pixel |-> collection[i].ndvi]]

(***************************************************************************)
(* ui.Chart.image.series: one row per image, x = system:time_start, y =    *)
(* the region mean.  ui.Chart.image.seriesByRegion: one series per value   *)
(* of the series property ('name') among the regions.                      *)
(***************************************************************************)
\* variant: no row for an image whose region mean is masked
chartImageSeries_DropMasked(collection) ==
    LET valid == SelectSeq(collection, LAMBDA img : ~img.ndvi.masked)
    IN  [i \in 1..Len(valid) |-> [x |-> valid[i].time_start, y |-> valid[i].ndvi]]

chartImageSeries(collection) ==
    [i \in 1..Len(collection) |->
        [x |-> collection[i].time_start, y |-> collection[i].ndvi]]

RECURSIVE DistinctLabels(_)
DistinctLabels(features) ==
    IF features = <<>> THEN <<>>
    ELSE LET rest == DistinctLabels(SubSeq(features, 1, Len(features) - 1))
             name == features[Len(features)].name
         IN  IF \E i \in 1..Len(rest) : rest[i] = name THEN rest
             ELSE Append(rest, name)

chartImageSeriesByRegion(collection, regions) ==
    LET labels == DistinctLabels(regions)
    IN  [k \in 1..Len(labels) |->
            [label |-> labels[k], rows |-> chartImageSeries(collection)]]

(***************************************************************************)
(* Values of the script's state.                                           *)
(***************************************************************************)
NoAOI == [null |-> TRUE, geometries |-> <<>>]

\* layer.getEeObject(): the geometry made of everything drawn on the layer
getEeObject(layer) == [null |-> FALSE, geometries |-> layer]

Geometries == {"rectA", "rectB"}

Coords == { [lon |-> 51, lat |-> 35], [lon |-> 52, lat |-> 36] }

FailPoints == {"none", "aoiChart", "getInfo", "pointsChart", "getDownloadURL"}

NoRun ==
    [status |-> "none", aoi |-> NoAOI, year |-> 0,
     startDate |-> DateFromYMD(0, 1, 1), endDate |-> DateFromYMD(0, 1, 1),
     filtered |-> [src \in Sources |-> <<>>], points |-> <<>>,
     monthlyNDVI |-> <<>>, ndviImage |-> <<>>,
     aoiChart |-> <<>>, hasPointsChart |-> FALSE, pointsChart |-> <<>>,
     exportUrl |-> <<>>]

Label(text) == [kind |-> "label", value |-> text]
Chart(title) == [kind |-> "chart", value |-> title]
Link(text) == [kind |-> "link", value |-> text]

TotalGeoms(layers) ==
    LET RECURSIVE Sum(_)
        Sum(ls) == IF ls = <<>> THEN 0 ELSE Len(Head(ls)) + Sum(Tail(ls))
    IN  Sum(layers)

(***************************************************************************)
(* Init: the state after the script has run top to bottom (index.js:19-104)*)
(***************************************************************************)
InitScript ==
    /\ userAOI = NoAOI
    /\ startYear = 2022
    /\ points = <<>>
    /\ pointCounter = 0
    /\ clickListeners = 0
    /\ drawShape = "none"
    /\ drawLayers = <<>>
    /\ lastDrawn = "none"
    /\ mapLayers = <<>>
    /\ panel = <<>>
    /\ alertMsg = NoAlert
    /\ analysis = NoRun
    /\ nRuns = 0

(***************************************************************************)
(* drawAOIButton.onClick (index.js:49-54)                                  *)
(***************************************************************************)
DrawAOIButtonClick ==
    /\ drawShape' = "rectangle"
    /\ alertMsg' = "Draw a rectangle on the map to define your AOI."
    /\ UNCHANGED <<userAOI, startYear, points, pointCounter, clickListeners,
                   drawLayers, lastDrawn, mapLayers, panel, analysis, nRuns,
                   catalog>>

(***************************************************************************)
(* The user completes a rectangle while the drawing tools are in draw      *)
(* mode: the drawing tools put it on the selected layer, creating the      *)
(* layer when there is none.  Nothing in the script removes what was drawn *)
(* before.                                                                 *)
(***************************************************************************)
UserDrawsRectangle(g) ==
    /\ drawShape = "rectangle"
    /\ TotalGeoms(drawLayers) < MaxGeoms
    /\ drawLayers' =
         IF drawLayers = <<>>
         THEN <<<<g>>>>
         ELSE [drawLayers EXCEPT ![Len(drawLayers)] = Append(@, g)]
    /\ lastDrawn' = g
    /\ UNCHANGED <<userAOI, startYear, points, pointCounter, clickListeners,
                   drawShape, mapLayers, panel, alertMsg, analysis, nRuns,
                   catalog>>

(***************************************************************************)
(* yearDropdown.onChange (index.js:63-65)                                  *)
(***************************************************************************)
YearDropdownChange(value) ==
    /\ startYear' = parseInt(value)
    /\ UNCHANGED <<userAOI, points, pointCounter, clickListeners, drawShape,
                   drawLayers, lastDrawn, mapLayers, panel, alertMsg, analysis,
                   nRuns, catalog>>

(***************************************************************************)
(* addPointButton.onClick (index.js:73-84): every press registers one more *)
(* click callback on the Map.                                              *)
(***************************************************************************)
AddPointButtonClick ==
    /\ clickListeners < MaxListeners
    /\ clickListeners' = clickListeners + 1
    /\ alertMsg' = "Click on the map to add points for NDVI comparison."
    /\ UNCHANGED <<userAOI, startYear, points, pointCounter, drawShape,
                   drawLayers, lastDrawn, mapLayers, panel, analysis, nRuns,
                   catalog>>

(***************************************************************************)
(* The callback registered at index.js:74-82, as a function of the state   *)
(* it reads and writes.                                                    *)
(***************************************************************************)
\* variant: the name taken from the counter before it is incremented
onMapClick_NameBeforeIncrement(st, coords) ==
    LET pointName == "Point " \o ToString(st.pointCounter)
        counter   == st.pointCounter + 1
        feature   == [geometry |-> coords, name |-> pointName]
    IN  [pointCounter |-> counter,
         points       |-> st.points \o <<feature>>,
         mapLayers    |-> Append(st.mapLayers, pointName),
         alertMsg     |-> "Point added! Total points: " \o ToString(counter)]

onMapClick(st, coords) ==
    LET counter   == st.pointCounter + 1
        pointName == "Point " \o ToString(counter)
        feature   == [geometry |-> coords, name |-> pointName]
    IN  [pointCounter |-> counter,
         points       |-> st.points \o <<feature>>,
         mapLayers    |-> Append(st.mapLayers, pointName),
         alertMsg     |-> "Point added! Total points: " \o ToString(counter)]

RECURSIVE FireListeners(_, _, _)
FireListeners(n, st, coords) ==
    IF n = 0 THEN st ELSE FireListeners(n - 1, onMapClick(st, coords), coords)

(***************************************************************************)
(* A click on the map: the Map calls every registered callback.            *)
(***************************************************************************)
MapClick(coords) ==
    /\ pointCounter + clickListeners <= MaxPoints
    /\ LET st == FireListeners(clickListeners,
                               [pointCounter |-> pointCounter, points |-> points,
                                mapLayers |-> mapLayers, alertMsg |-> alertMsg],
                               coords)
       IN  /\ pointCounter' = st.pointCounter
           /\ points' = st.points
           /\ mapLayers' = st.mapLayers
           /\ alertMsg' = st.alertMsg
    /\ UNCHANGED <<userAOI, startYear, clickListeners, drawShape, drawLayers,
                   lastDrawn, panel, analysis, nRuns, catalog>>

\* points.size().getInfo()
sizeGetInfo(collection) == Len(collection)

(***************************************************************************)
(* performNDVIAnalysis (index.js:109-174) with generateExportURL           *)
(* (index.js:179-189), as the record of its locals.  failAt is the remote  *)
(* call that throws, "none" for a run that completes.                      *)
(***************************************************************************)
\* variant: the point chart made whenever the size is known (>= 0 for > 0)
performNDVIAnalysis_ChartAlways(aoi, year, pts, failAt) ==
    LET startDate == DateFromYMD(year, 1, 1)
        endDate   == AdvanceYear(startDate, 1)
        landsat8  == mapProcessLandsat(
                            filterDate(catalog["LANDSAT/LC08/C02/T1_L2"],
                                       startDate, endDate))
        landsat9  == mapProcessLandsat(
                            filterDate(catalog["LANDSAT/LC09/C02/T1_L2"],
                                       startDate, endDate))
        sentinel2 == mapProcessSentinel(
                            filterDate(catalog["COPERNICUS/S2_SR_HARMONIZED"],
                                       startDate, endDate))
        ndviCollection == sortByTimeStart(landsat8 \o landsat9 \o sentinel2)
        monthlyNDVI == computeMonthlyNDVI(ndviCollection)
        ndviImage   == toBands(monthlyNDVI)
        aoiDone     == failAt # "aoiChart"
        sizeDone    == aoiDone /\ failAt # "getInfo"
        pointsDone  == sizeDone /\ sizeGetInfo(pts) >= 0 /\ failAt # "pointsChart"
        exportDone  == failAt = "none"
    IN  [status |-> IF failAt = "none" THEN "completed" ELSE failAt,
         aoi |-> aoi, year |-> year,
         startDate |-> startDate, endDate |-> endDate,
         filtered |-> [src \in Sources |->
                         CASE src = "LANDSAT/LC08/C02/T1_L2" -> landsat8
                           [] src = "LANDSAT/LC09/C02/T1_L2" -> landsat9
                           [] OTHER -> sentinel2],
         points |-> pts,
         monthlyNDVI |-> monthlyNDVI,
         ndviImage |-> ndviImage,
         aoiChart |-> IF aoiDone THEN chartImageSeries(monthlyNDVI) ELSE <<>>,
         hasPointsChart |-> pointsDone,
         pointsChart |-> IF pointsDone
                         THEN chartImageSeriesByRegion(monthlyNDVI, pts)
                         ELSE <<>>,
         exportUrl |-> IF exportDone
                       THEN [i \in 1..Len(ndviImage) |-> ndviImage[i].name]
                       ELSE <<>>]

performNDVIAnalysis(aoi, year, pts, failAt) ==
    LET startDate == DateFromYMD(year, 1, 1)
        endDate   == AdvanceYear(startDate, 1)
        landsat8  == mapProcessLandsat(
                            filterDate(catalog["LANDSAT/LC08/C02/T1_L2"],
                                       startDate, endDate))
        landsat9  == mapProcessLandsat(
                            filterDate(catalog["LANDSAT/LC09/C02/T1_L2"],
                                       startDate, endDate))
        sentinel2 == mapProcessSentinel(
                            filterDate(catalog["COPERNICUS/S2_SR_HARMONIZED"],
                                       startDate, endDate))
        ndviCollection == sortByTimeStart(landsat8 \o landsat9 \o sentinel2)
        monthlyNDVI == computeMonthlyNDVI(ndviCollection)
        ndviImage   == toBands(monthlyNDVI)
        aoiDone     == failAt # "aoiChart"
        sizeDone    == aoiDone /\ failAt # "getInfo"
        pointsDone  == sizeDone /\ sizeGetInfo(pts) > 0 /\ failAt # "pointsChart"
        exportDone  == failAt = "none"
    IN  [status |-> IF failAt = "none" THEN "completed" ELSE failAt,
         aoi |-> aoi, year |-> year,
         startDate |-> startDate, endDate |-> endDate,
         filtered |-> [src \in Sources |->
                         CASE src = "LANDSAT/LC08/C02/T1_L2" -> landsat8
                           [] src = "LANDSAT/LC09/C02/T1_L2" -> landsat9
                           [] OTHER -> sentinel2],
         points |-> pts,
         monthlyNDVI |-> monthlyNDVI,
         ndviImage |-> ndviImage,
         aoiChart |-> IF aoiDone THEN chartImageSeries(monthlyNDVI) ELSE <<>>,
         hasPointsChart |-> pointsDone,
         pointsChart |-> IF pointsDone
                         THEN chartImageSeriesByRegion(monthlyNDVI, pts)
                         ELSE <<>>,
         exportUrl |-> IF exportDone
                       THEN [i \in 1..Len(ndviImage) |-> ndviImage[i].name]
                       ELSE <<>>]

\* the widgets performNDVIAnalysis and generateExportURL append to controlPanel
panelAdditions(run) ==
    (IF run.status # "aoiChart"
     THEN <<Label("NDVI Trends Over Time (AOI):"),
            Chart("NDVI Trends Over Time (AOI)")>>
     ELSE <<>>)
    \o (IF run.hasPointsChart
        THEN <<Label("NDVI Comparison for Points:"),
               Chart("NDVI Comparison for Points")>>
        ELSE <<>>)
    \o (IF run.status = "completed"
        THEN <<Label("Export NDVI Map as GeoTIFF:"), Link("GeoTIFF")>>
        ELSE <<>>)

(***************************************************************************)
(* runAnalysisButton.onClick (index.js:91-102).  Map.clear() (index.js:110)*)
(* removes the layers of the Map; whether it also drops the click          *)
(* callbacks and the drawn geometries is the platform's choice.            *)
(***************************************************************************)
\* variant: the alert of the empty-layers branch not followed by a return
RunAnalysisButtonClick_NoReturn(failAt, keepListeners, keepDrawing) ==
    /\ nRuns < MaxRuns
    /\ failAt = "pointsChart" => Len(points) > 0
    /\ LET aoi == IF Len(drawLayers) = 0 THEN userAOI
                  ELSE getEeObject(drawLayers[1])
           run == performNDVIAnalysis(aoi, startYear, points, failAt)
       IN  /\ userAOI' = aoi
           /\ analysis' = run
           /\ mapLayers' = <<"Monthly NDVI">>
           /\ panel' = panel \o panelAdditions(run)
    /\ alertMsg' = IF Len(drawLayers) = 0
                   THEN "Please draw an AOI before running the analysis."
                   ELSE alertMsg
    /\ clickListeners' = IF keepListeners THEN clickListeners ELSE 0
    /\ drawLayers' = IF keepDrawing THEN drawLayers ELSE <<>>
    /\ nRuns' = nRuns + 1
    /\ UNCHANGED <<startYear, points, pointCounter, drawShape, lastDrawn,
                   catalog>>

\* variant: a failed run discards the accumulated points
RunAnalysisButtonClick_ResetOnFailure(failAt, keepListeners, keepDrawing) ==
    IF Len(drawLayers) = 0
    THEN /\ failAt = "none" /\ keepListeners /\ keepDrawing
         /\ alertMsg' = "Please draw an AOI before running the analysis."
         /\ UNCHANGED <<userAOI, startYear, points, pointCounter,
                        clickListeners, drawShape, drawLayers, lastDrawn,
                        mapLayers, panel, analysis, nRuns, catalog>>
    ELSE /\ nRuns < MaxRuns
         /\ failAt = "pointsChart" => Len(points) > 0
         /\ LET layer == drawLayers[1]
                aoi   == getEeObject(layer)
                run   == performNDVIAnalysis(aoi, startYear, points, failAt)
            IN  /\ userAOI' = aoi
                /\ analysis' = run
                /\ mapLayers' = <<"Monthly NDVI">>
                /\ panel' = panel \o panelAdditions(run)
         /\ clickListeners' = IF keepListeners THEN clickListeners ELSE 0
         /\ drawLayers' = IF keepDrawing THEN drawLayers ELSE <<>>
         /\ nRuns' = nRuns + 1
         /\ points' = IF failAt = "none" THEN points ELSE <<>>
         /\ pointCounter' = IF failAt = "none" THEN pointCounter ELSE 0
         /\ UNCHANGED <<startYear, drawShape, lastDrawn, alertMsg, catalog>>

RunAnalysisButtonClick(failAt, keepListeners, keepDrawing) ==
    IF Len(drawLayers) = 0
    THEN /\ failAt = "none" /\ keepListeners /\ keepDrawing
         /\ alertMsg' = "Please draw an AOI before running the analysis."
         /\ UNCHANGED <<userAOI, startYear, points, pointCounter,
                        clickListeners, drawShape, drawLayers, lastDrawn,
                        mapLayers, panel, analysis, nRuns, catalog>>
    ELSE /\ nRuns < MaxRuns
         /\ failAt = "pointsChart" => Len(points) > 0
         /\ LET layer == drawLayers[1]
                aoi   == getEeObject(layer)
                run   == performNDVIAnalysis(aoi, startYear, points, failAt)
            IN  /\ userAOI' = aoi
                /\ analysis' = run
                /\ mapLayers' = <<"Monthly NDVI">>
                /\ panel' = panel \o panelAdditions(run)
         /\ clickListeners' = IF keepListeners THEN clickListeners ELSE 0
         /\ drawLayers' = IF keepDrawing THEN drawLayers ELSE <<>>
         /\ nRuns' = nRuns + 1
         /\ UNCHANGED <<startYear, points, pointCounter, drawShape, lastDrawn,
                        alertMsg, catalog>>

(***************************************************************************)
(* The events of a session, the user's inputs drawn from the given sets.   *)
(***************************************************************************)
Drawing(geoms) ==
    \/ DrawAOIButtonClick
    \/ \E g \in geoms : UserDrawsRectangle(g)

Years(items) == \E value \in items : YearDropdownChange(value)

Pointing(coords) ==
    \/ AddPointButtonClick
    \/ \E c \in coords : MapClick(c)

Running(fails) ==
    \E failAt \in fails, keepListeners \in BOOLEAN, keepDrawing \in BOOLEAN :
        RunAnalysisButtonClick(failAt, keepListeners, keepDrawing)

\* an archive with two scenes of January 2022
SessionCatalog ==
    CatalogOf(<<[src |-> "LANDSAT/LC08/C02/T1_L2",
                 scene |-> LandsatScene(2022, 1, 17, 10000, 12000)],
                [src |-> "COPERNICUS/S2_SR_HARMONIZED",
                 scene |-> SentinelScene(2022, 1, 1, 500, 3500)]>>)

OneYear == { <<"2", "0", "2", "3">> }
OneCoord == { [lon |-> 51, lat |-> 35] }

(***************************************************************************)
(* Spec: a whole session over one archive, every run completing.           *)
(***************************************************************************)
Init == InitScript /\ catalog = SessionCatalog

Next ==
    \/ Drawing({"rectA"})
    \/ Years(yearItems)
    \/ Pointing(OneCoord)
    \/ Running({"none"})

Spec == Init /\ [][Next]_vars

(***************************************************************************)
(* SpecAOI: a session in which the user draws different rectangles.        *)
(***************************************************************************)
NextAOI ==
    \/ Drawing(Geometries)
    \/ Years(OneYear)
    \/ Pointing(Coords)
    \/ Running({"none"})

SpecAOI == Init /\ [][NextAOI]_vars

(***************************************************************************)
(* The state after 'Draw AOI' and one rectangle.                           *)
(***************************************************************************)
InitDrawn ==
    /\ userAOI = NoAOI
    /\ startYear = 2022
    /\ points = <<>>
    /\ pointCounter = 0
    /\ clickListeners = 0
    /\ drawShape = "rectangle"
    /\ drawLayers = <<<<"rectA">>>>
    /\ lastDrawn = "rectA"
    /\ mapLayers = <<>>
    /\ panel = <<>>
    /\ alertMsg = "Draw a rectangle on the map to define your AOI."
    /\ analysis = NoRun
    /\ nRuns = 0

(***************************************************************************)
(* SpecFail: points and runs, a run failing at any of its remote calls.    *)
(***************************************************************************)
InitFail == InitDrawn /\ catalog = SessionCatalog

NextFail ==
    \/ Years(OneYear)
    \/ Pointing(OneCoord)
    \/ Running(FailPoints)

SpecFail == InitFail /\ [][NextFail]_vars

(***************************************************************************)
(* SpecAgg: the pipeline over every archive of at most MaxImgs scenes.     *)
(***************************************************************************)
InitAgg == InitDrawn /\ catalog \in Catalogs

NextAgg ==
    \/ Years(yearItems)
    \/ Running({"none"})

SpecAgg == InitAgg /\ [][NextAgg]_vars

(***************************************************************************)
(* Properties.                                                             *)
(***************************************************************************)
RunPressed ==
    \E failAt \in FailPoints, keepListeners \in BOOLEAN, keepDrawing \in BOOLEAN :
        RunAnalysisButtonClick(failAt, keepListeners, keepDrawing)

\* C1: a press of 'Run Analysis' while the drawing tools hold no layer shows
\* the alert and invokes no analysis: no map clear, no widget added to the
\* panel, and userAOI, startYear, points and pointCounter keep their values.
C1_NoAOIBlocksRun ==
    [][(Len(drawLayers) = 0 /\ RunPressed) =>
         /\ alertMsg' = "Please draw an AOI before running the analysis."
         /\ nRuns' = nRuns
         /\ analysis' = analysis
         /\ mapLayers' = mapLayers
         /\ panel' = panel
         /\ userAOI' = userAOI
         /\ startYear' = startYear
         /\ points' = points
         /\ pointCounter' = pointCounter]_vars

\* C1 witness: the alert of a blocked run, after a year selection and map
\* clicks that added points, with their layers still on the map.
C1_Witness ==
    /\ alertMsg = "Please draw an AOI before running the analysis."
    /\ Len(drawLayers) = 0
    /\ startYear = 2024
    /\ pointCounter = 2
    /\ Len(mapLayers) = 2
    /\ nRuns = 0

\* C4: the points are named 'Point 1' .. 'Point n' in order, n = pointCounter
\* = the size of the collection, the names are pairwise distinct, and every
\* step keeps the points already there (the collection only grows).
C4_PointNames ==
    /\ pointCounter = Len(points)
    /\ \A i \in 1..Len(points) : points[i].name = "Point " \o ToString(i)
    /\ \A i, j \in 1..Len(points) : i # j => points[i].name # points[j].name

C4_PointsOnlyGrow ==
    [][/\ Len(points') >= Len(points)
       /\ SubSeq(points', 1, Len(points)) = points]_vars

C4_Points == []C4_PointNames /\ C4_PointsOnlyGrow

\* C4 witness: two points, added before an analysis run that left them alone.
C4_Witness ==
    /\ Len(points) = 2
    /\ points[2].name = "Point 2"
    /\ nRuns > 0
    /\ analysis.points = points
    /\ startYear # 2022

\* C10: a map click adds at most one point, and none while no 'Add Points'
\* press has registered a callback.
C10_OnePointPerClick ==
    [][/\ pointCounter' <= pointCounter + 1
       /\ (clickListeners = 0 => pointCounter' = pointCounter)]_vars

\* C9: the AOI a run analyses is the rectangle the user drew last.
C9_RunUsesLastDrawn ==
    [][nRuns' # nRuns =>
         /\ ~userAOI'.null
         /\ analysis'.aoi = userAOI'
         /\ { userAOI'.geometries[i] : i \in 1..Len(userAOI'.geometries) }
              = { lastDrawn }]_vars

(***************************************************************************)
(* The widgets the most recent run appended to the panel.                  *)
(***************************************************************************)
LastWidgets(n) == SubSeq(panel, Len(panel) - n + 1, Len(panel))

PointNames(features) == { features[i].name : i \in 1..Len(features) }

\* C5: a completed run made the point chart iff it was given at least one
\* point; with none it added the AOI chart and the export link only, with
\* some it made one series per distinct point name, labelled by that name.
C5_PointChartIffPoints ==
    analysis.status = "completed" =>
        /\ analysis.hasPointsChart <=> Len(analysis.points) > 0
        /\ Len(analysis.aoiChart) > 0 /\ Len(analysis.exportUrl) > 0
        /\ Len(analysis.points) = 0 =>
             /\ analysis.pointsChart = <<>>
             /\ Len(panel) >= 4
             /\ LastWidgets(4) = <<Label("NDVI Trends Over Time (AOI):"),
                                   Chart("NDVI Trends Over Time (AOI)"),
                                   Label("Export NDVI Map as GeoTIFF:"),
                                   Link("GeoTIFF")>>
        /\ Len(analysis.points) > 0 =>
             /\ Len(analysis.pointsChart) = Cardinality(PointNames(analysis.points))
             /\ { analysis.pointsChart[k].label : k \in 1..Len(analysis.pointsChart) }
                  = PointNames(analysis.points)
             /\ \A k \in 1..Len(analysis.pointsChart) :
                    Len(analysis.pointsChart[k].rows) = 12
             /\ Len(panel) >= 6
             /\ LastWidgets(6) = <<Label("NDVI Trends Over Time (AOI):"),
                                   Chart("NDVI Trends Over Time (AOI)"),
                                   Label("NDVI Comparison for Points:"),
                                   Chart("NDVI Comparison for Points"),
                                   Label("Export NDVI Map as GeoTIFF:"),
                                   Link("GeoTIFF")>>

\* C5 witness: a completed run with a point, after a completed run without
\* any: the panel holds the four widgets of the first and the six of the
\* second.
C5_Witness ==
    /\ nRuns = 2
    /\ analysis.status = "completed"
    /\ Len(analysis.points) > 0
    /\ Len(panel) = 10
    /\ panel[3].value = "Export NDVI Map as GeoTIFF:"

\* C8: a step that invokes performNDVIAnalysis, completing or failing at any
\* remote call, leaves points, pointCounter and startYear as they were; and
\* a press of 'Run Analysis' after a failed run, the AOI still drawn, invokes
\* performNDVIAnalysis again.
C8_FailureScoped ==
    [][/\ nRuns' # nRuns =>
            /\ points' = points
            /\ pointCounter' = pointCounter
            /\ startYear' = startYear
       /\ (/\ analysis.status \in FailPoints \ {"none"}
           /\ Len(drawLayers) > 0
           /\ RunPressed) =>
            /\ nRuns' = nRuns + 1
            /\ analysis'.status \in (FailPoints \ {"none"}) \cup {"completed"}
            /\ analysis'.points = points]_vars

\* C8 witness: a second run completed after a first run that failed (the
\* panel holds one export link for two runs), the points still there.
C8_Witness ==
    /\ nRuns = 2
    /\ analysis.status = "completed"
    /\ Len(SelectSeq(panel, LAMBDA w : w.kind = "link")) = 1
    /\ Len(points) = 2
    /\ pointCounter = 2
    /\ startYear = 2023

(***************************************************************************)
(* The scenes of the archive that fall in calendar year y / month m,       *)
(* counted from the calendar fields of their timestamps.                   *)
(***************************************************************************)
ScenesOfYear(src, y) ==
    SelectSeq(catalog[src], LAMBDA img : CivilFromDays(img.time_start).year = y)

ImagesOfMonth(run, m) ==
    LET Count(src) ==
          Len(SelectSeq(run.filtered[src],
                        LAMBDA img : CivilFromDays(img.time_start).month = m))
    IN  Count("LANDSAT/LC08/C02/T1_L2") + Count("LANDSAT/LC09/C02/T1_L2")
          + Count("COPERNICUS/S2_SR_HARMONIZED")

TwelveMonths(composites) ==
    /\ Len(composites) = 12
    /\ \A i \in 1..12 : CivilFromDays(composites[i].time_start).month = i
    /\ \A i \in 1..11 : composites[i].time_start < composites[i + 1].time_start

\* C2: computeMonthlyNDVI emits 12 composites, month i at position i, in
\* ascending order, for the sorted collection of the run and for the same
\* images in archive order; the stacked image has one band per month, in
\* month order.
C2_TwelveComposites ==
    analysis.status # "none" =>
        /\ TwelveMonths(analysis.monthlyNDVI)
        /\ TwelveMonths(computeMonthlyNDVI(
               analysis.filtered["COPERNICUS/S2_SR_HARMONIZED"]
                 \o analysis.filtered["LANDSAT/LC09/C02/T1_L2"]
                 \o analysis.filtered["LANDSAT/LC08/C02/T1_L2"]))
        /\ Len(analysis.ndviImage) = 12
        /\ \A i \in 1..12 :
               analysis.ndviImage[i].name = analysis.monthlyNDVI[i].index \o "_ndvi"

\* C2 witness: a run over two scenes of one source, stored newest first, that
\* fall in different months.
C2_Witness ==
    /\ analysis.status = "completed"
    /\ LET s2 == analysis.filtered["COPERNICUS/S2_SR_HARMONIZED"]
       IN  /\ Len(s2) = 2
           /\ s2[1].time_start > s2[2].time_start
           /\ ~analysis.monthlyNDVI[1].ndvi.masked
           /\ ~analysis.monthlyNDVI[7].ndvi.masked

\* C3: the composite of month m is stamped day 1 of month m of the year after
\* the year the run filtered by, and the run filtered by the startYear that
\* computeMonthlyNDVI then read.
C3_StampInv ==
    analysis.status # "none" =>
        /\ analysis.startDate = DateFromYMD(analysis.year, 1, 1)
        /\ \A i \in 1..Len(analysis.monthlyNDVI) :
               /\ CivilFromDays(analysis.monthlyNDVI[i].time_start)
                    = DateFromYMD(analysis.year + 1, i, 1)
               /\ analysis.monthlyNDVI[i].index
                    = DateFormatYYYYMM(DateFromYMD(analysis.year + 1, i, 1))
        /\ \A src \in Sources : \A k \in 1..Len(analysis.filtered[src]) :
               CivilFromDays(analysis.filtered[src][k].time_start).year
                 = analysis.year

C3_RunReadsStartYear ==
    [][nRuns' # nRuns => analysis'.year = startYear /\ startYear' = startYear]_vars

C3_FollowingYear == []C3_StampInv /\ C3_RunReadsStartYear

\* C3 witness: a second run, for 2022 after a run for another year, whose
\* January composite holds data of 2022 and is stamped 2023-01.
C3_Witness ==
    /\ nRuns = 2
    /\ analysis.year = 2022
    /\ ~analysis.monthlyNDVI[1].ndvi.masked
    /\ analysis.monthlyNDVI[1].index = "2023-01"
    /\ Len(panel) = 8

\* C7: startYear is one of the five supported years, and a run filters each
\* source to the scenes from Jan 1 of startYear (included) to Jan 1 of the
\* next year (excluded), startYear being the value at the press.
C7_YearInv ==
    /\ startYear \in {2020, 2021, 2022, 2023, 2024}
    /\ analysis.status # "none" =>
         /\ analysis.year \in {2020, 2021, 2022, 2023, 2024}
         /\ analysis.startDate = [year |-> analysis.year, month |-> 1, day |-> 1]
         /\ analysis.endDate = [year |-> analysis.year + 1, month |-> 1, day |-> 1]
         /\ \A src \in Sources :
                [k \in 1..Len(analysis.filtered[src]) |->
                    analysis.filtered[src][k].time_start]
                = [k \in 1..Len(ScenesOfYear(src, analysis.year)) |->
                    ScenesOfYear(src, analysis.year)[k].time_start]

C7_RunUsesCurrentYear ==
    [][nRuns' # nRuns => analysis'.year = startYear]_vars

C7_YearRange == []C7_YearInv /\ C7_RunUsesCurrentYear

\* C7 witness: a run for 2022 over an archive holding a scene of Jan 1 2022
\* and a scene of Jan 1 2023: the first is kept, the second is not.
C7_Witness ==
    /\ analysis.status = "completed"
    /\ analysis.year = 2022
    /\ Len(catalog["COPERNICUS/S2_SR_HARMONIZED"]) = 2
    /\ catalog["COPERNICUS/S2_SR_HARMONIZED"][1].time_start = DaysFromCivil(2023, 1, 1)
    /\ catalog["COPERNICUS/S2_SR_HARMONIZED"][2].time_start = DaysFromCivil(2022, 1, 1)
    /\ Len(analysis.filtered["COPERNICUS/S2_SR_HARMONIZED"]) = 1

\* C6: the AOI series of a completed run has 12 rows, row i at month i,
\* whatever the number of images of each month; a month without images has
\* a masked composite.
C6_AreaSeriesTwelve ==
    analysis.status = "completed" =>
        /\ Len(analysis.aoiChart) = 12
        /\ \A i \in 1..12 :
               /\ CivilFromDays(analysis.aoiChart[i].x).month = i
               /\ analysis.aoiChart[i].y = analysis.monthlyNDVI[i].ndvi
               /\ ImagesOfMonth(analysis, i) = 0 => analysis.aoiChart[i].y.masked

\* C6 witness: a completed run with two images in January and none in any
\* other month.
C6_Witness ==
    /\ analysis.status = "completed"
    /\ ImagesOfMonth(analysis, 1) = 2
    /\ ~analysis.aoiChart[1].y.masked
    /\ \A i \in 2..12 : ImagesOfMonth(analysis, i) = 0 /\ analysis.aoiChart[i].y.masked

====
